---- MODULE Spec2Model ----
(***************************************************************************)
(* Unlock-key backend: the API router (POST /api/verify_key,               *)
(* /api/check_token, /api/generate_key) and the admin router               *)
(* (/admin/generate_key, DELETE /admin/keys/:id, PUT /admin/keys/:id/      *)
(* toggle) over the two PostgreSQL tables unlock_keys and user_tokens.     *)
(*                                                                         *)
(* Every request handler is an async function: it runs atomically from one *)
(* `await client.query(...)` to the next.  An action of this module is one *)
(* such segment: the query it awaits together with the synchronous code    *)
(* that follows it up to the next await (or the response).                 *)
(*                                                                         *)
(* Time: TLC integers are 32 bit and 30 days in milliseconds are not, so   *)
(* the clock counts units of 1000 / UnitsPerSecond milliseconds.           *)
(***************************************************************************)
EXTENDS Integers, Sequences, FiniteSets, TLC

\* ------------------------------------------------------------------ bounds
MaxReqs == 3          \* request slots (each serves one request)
MaxTicks == 1         \* clock advances
MaxPasses == 2        \* passes of the generate loop per request (SpecRace)
MaxKeys == 2          \* rows ever inserted into unlock_keys (SERIAL id)
UnitsPerSecond == 2   \* clock resolution: units per second

\* ------------------------------------------------------------- time values
MsPerUnit == 1000 \div UnitsPerSecond

\* a duration written in the source in milliseconds, in clock units
Ms(seconds) == seconds * UnitsPerSecond

\* 30 * 24 * 60 * 60 * 1000 ms: validity window of a key
KeyValidity == Ms(30 * 24 * 60 * 60)

DurationTypes == {"5min", "1day", "1week", "2weeks", "1month"}

\* KEY_DURATIONS[type].duration of the API router (clock units)
KEY_DURATIONS(type) ==
  CASE type = "5min"   -> Ms(5 * 60)
    [] type = "1day"   -> Ms(24 * 60 * 60)
    [] type = "1week"  -> Ms(7 * 24 * 60 * 60)
    [] type = "2weeks" -> Ms(14 * 24 * 60 * 60)
    [] type = "1month" -> Ms(30 * 24 * 60 * 60)

\* getDurationInfo(durationType).duration: unknown types fall back to 5min
getDurationInfo(type) ==
  IF type \in DurationTypes THEN KEY_DURATIONS(type) ELSE KEY_DURATIONS("5min")

\* Math.floor(durationInfo.duration / 1000)
ToSeconds(duration) == duration \div UnitsPerSecond

\* ------------------------------------------------------------- key strings
\* A key is a sequence of one-character strings.
Upper == {"A","B","C","D","E","F","G","H","I","J","K","L","M",
          "N","O","P","Q","R","S","T","U","V","W","X","Y","Z"}
Digits == {"0","1","2","3","4","5","6","7","8","9"}
AlnumUpper == Upper \cup Digits

Prefix == <<"v","s","m","-">>

\* the duration type as it is spelled inside a legacy key
TypeChars(type) ==
  CASE type = "5min"   -> <<"5","m","i","n">>
    [] type = "1day"   -> <<"1","d","a","y">>
    [] type = "1week"  -> <<"1","w","e","e","k">>
    [] type = "2weeks" -> <<"2","w","e","e","k","s">>
    [] type = "1month" -> <<"1","m","o","n","t","h">>

AllIn(s, set) == \A i \in 1..Len(s) : s[i] \in set

\* /^vsm-[A-Z0-9]{8}-[A-Z0-9]{4}$/
NewFormatRegex(key) ==
  /\ Len(key) = 17
  /\ SubSeq(key, 1, 4) = Prefix
  /\ AllIn(SubSeq(key, 5, 12), AlnumUpper)
  /\ key[13] = "-"
  /\ AllIn(SubSeq(key, 14, 17), AlnumUpper)

\* /^vsm-[A-Z0-9]{8}-(5min|1day|1week|2weeks|1month)$/
LegacyRegex(key) ==
  /\ Len(key) >= 13
  /\ SubSeq(key, 1, 4) = Prefix
  /\ AllIn(SubSeq(key, 5, 12), AlnumUpper)
  /\ key[13] = "-"
  /\ \E t \in DurationTypes : SubSeq(key, 14, Len(key)) = TypeChars(t)

\* (variant: every key string passes)
validateKeyFormatAny(key) == TRUE

\* (variant: the validator of src/diagnose_backend.js, which accepts the
\* keys with a duration suffix)
validateKeyFormatLegacy(key) == LegacyRegex(key)

validateKeyFormat(key) ==
  IF LegacyRegex(key) THEN FALSE ELSE NewFormatRegex(key)

\* the random blocks the generators draw in this model
FirstParts == { <<"A","B","C","D","1","2","3","4">>,
                <<"Z","9","Z","9","Z","9","Z","9">> }
Suffixes == { <<"W","X","Y","Z">> }

\* generateUnlockKey() of the API router: vsm-XXXXXXXX-XXXX
generateUnlockKey(firstPart, suffix) == Prefix \o firstPart \o <<"-">> \o suffix

ApiKeys == { generateUnlockKey(f, s) : f \in FirstParts, s \in Suffixes }

\* a key as the admin router writes it: vsm-XXXXXXXX-<duration type>
LegacyKey == Prefix \o <<"A","B","C","D","1","2","3","4">> \o <<"-">> \o TypeChars("5min")

\* the first key of this model
Key1 == generateUnlockKey(<<"A","B","C","D","1","2","3","4">>, <<"W","X","Y","Z">>)

\* a key of the accepted format whose last block reads as a duration
KeyNamingDay == generateUnlockKey(<<"A","B","C","D","1","2","3","4">>, <<"1","D","A","Y">>)

Users == {"u1", "u2"}

\* the bodies of redeem requests for the two keys
TwoCodeInputs == Users \X {Key1, KeyNamingDay}

\* key strings of each shape the validator has to tell apart
Block8 == <<"A","B","C","D","1","2","3","4">>

AcceptedKeys ==
  { Key1,
    generateUnlockKey(<<"Z","9","Z","9","Z","9","Z","9">>, <<"0","0","0","0">>),
    generateUnlockKey(Block8, <<"5","M","I","N">>) }

RejectedKeys ==
  { Prefix \o <<"A","B","C","1","2","3","4">> \o <<"-","W","X","Y","Z">>,
    Prefix \o Block8 \o <<"5">> \o <<"-","W","X","Y","Z">>,
    Prefix \o <<"a","b","c","d","1","2","3","4">> \o <<"-","W","X","Y","Z">>,
    <<"V","S","M","-">> \o Block8 \o <<"-","W","X","Y","Z">>,
    Prefix \o Block8 \o <<"-","w","x","y","z">>,
    Prefix \o Block8 \o <<"-","W","X","Y">>,
    Prefix \o Block8 \o <<"-","W","X","Y","Z","1">>,
    Prefix \o Block8 \o <<"-">>,
    Prefix \o Block8 \o <<"-","i","n","v","a","l","i","d">>,
    Key1 \o <<"-","A","B">>,
    Prefix \o <<"A","B","C","D","-","1","2","3">> \o <<"-","W","X","Y","Z">>,
    <<"O","L","D","-","F","O","R","M","A","T">> }
    \cup { Prefix \o Block8 \o <<"-">> \o TypeChars(t) : t \in DurationTypes }

FormatInputs == {"u1"} \X (AcceptedKeys \cup RejectedKeys)

\* the bodies <<user_id, unlock_key>> of the redeem requests of this model:
\* a well-formed key from either user, a key of the legacy format, and a
\* body without user_id
RedeemInputs ==
  (Users \X {Key1}) \cup {<<"u1", LegacyKey>>, <<"", LegacyKey>>}

\* process.env.ADMIN_PASSWORD
ADMIN_PASSWORD == "secret"

\* the password field of a login body ("" when the field is missing)
Passwords == {"", ADMIN_PASSWORD, "guess"}

\* the session a request's cookie names: 0 when the request has no cookie
\* (express-session then gives it a fresh session that nothing has written
\* to), otherwise the id of a browser's session
SessionIds == {1, 2}

\* the Authorization header as <<scheme, credentials>>
NoAuthorization == <<"", "">>

Bearer(token) == <<"Bearer", token>>

Authorizations ==
  {NoAuthorization, Bearer(ADMIN_PASSWORD), Bearer("guess"),
   <<"Basic", ADMIN_PASSWORD>>}

\* the requests <<session, Authorization, id>> of the admin routes on a key
AdminKeyInputs ==
  ({<<0, Bearer(ADMIN_PASSWORD)>>} \X (1..MaxKeys))
    \cup {<<<<0, NoAuthorization>>, 1>>}

\* the requests <<session, duration_type>> of a generate_key
GenerateInputs ==
  ({1} \X (DurationTypes \cup {"bogus"})) \cup {<<0, "5min">>}

\* ---------------------------------------------------------------- requests
\* A NULL redeemed_by is "", a NULL redeemed_at is -1.
\* Fields that are not in the tables or in the handlers, kept as history:
\* connected and queries of a redeem handler (whether it has acquired a
\* client from the pool, and the number of client.query calls it has made),
\* released and lateQueries of every handler (the number of client.release()
\* calls it has made, and of client.query calls it made after a release),
\* created_by of a key row (the route that inserted it), key_id and
\* issued_at of a token row (the key row the issuing redeem had in hand and
\* the Date.now() it read), `at` of a check response (the server time read).
Reqs == 1..MaxReqs

NoRow == [id |-> 0, unlock_key |-> <<>>, key_expires_at |-> 0,
          premium_duration_seconds |-> 0, used |-> FALSE,
          redeemed_by |-> "", redeemed_at |-> -1, duration_type |-> "",
          created_by |-> ""]

NoArg == [kind |-> "none", user_id |-> "", unlock_key |-> <<>>, token |-> 0,
          id |-> 0, duration_type |-> "", isAdmin |-> FALSE, client_time |-> 0,
          session |-> 0, authorization |-> <<"", "">>, password |-> ""]

NoLoc == [keyId |-> 0, keyData |-> NoRow, durationType |-> "",
          keyExpiresAt |-> 0, token |-> 0, premiumExpiresAt |-> 0,
          fixedDurationType |-> "", attempts |-> 0, key |-> <<>>,
          currentUsed |-> FALSE, currentTimestamp |-> 0,
          connected |-> FALSE, queries |-> 0, released |-> 0,
          lateQueries |-> 0]

NoResp == [status |-> 0, error |-> "", token |-> 0, premium_until |-> 0,
           duration_type |-> "", premium_duration_seconds |-> 0,
           active |-> FALSE, remaining_time |-> 0, expires_at |-> 0,
           used |-> FALSE, unlock_key |-> <<>>, key_expires_at |-> 0,
           at |-> 0, listed |-> {}]

VARIABLES
  keys,       \* table unlock_keys: id -> row
  nextKeyId,  \* the SERIAL sequence of unlock_keys.id
  tokens,     \* table user_tokens: set of rows
  nextTok,    \* number of distinct token strings drawn so far, plus one
  now,        \* the server clock (Date.now() and NOW())
  ticks,      \* number of clock advances so far
  pc,         \* per request: the await the handler is suspended at
  arg,        \* per request: the request (route and body)
  loc,        \* per request: the handler's local variables
  resp,       \* per request: the response sent
  sessions    \* the session store: ids of the sessions with isAdmin set

vars ==
  <<keys, nextKeyId, tokens, nextTok, now, ticks, pc, arg, loc, resp,
    sessions>>

\* rows of unlock_keys with the given key string
RowsByKey(key) == { id \in DOMAIN keys : keys[id].unlock_key = key }

\* (variant: the table has no UNIQUE constraint on unlock_key)
NoUniqueConstraint(key) == FALSE

\* unlock_key VARCHAR(20) UNIQUE NOT NULL: an INSERT of a key string that a
\* row already has fails
UniqueViolation(key) == RowsByKey(key) # {}

\* requireAdminAuth of the API router: the request's session has isAdmin
ApiRequireAdminAuth(session) == session \in sessions

\* (variant: any Authorization header with the Bearer scheme is accepted)
requireAdminAuthAnyBearer(session, authorization) ==
  IF session \in sessions
    THEN TRUE
    ELSE authorization[1] = "Bearer"

\* requireAdminAuth of the admin router: the request's session has isAdmin,
\* or the Authorization header is "Bearer " followed by ADMIN_PASSWORD
requireAdminAuth(session, authorization) ==
  IF session \in sessions
    THEN TRUE
    ELSE authorization[1] = "Bearer" /\ authorization[2] = ADMIN_PASSWORD

\* request slots are taken in order (the slots are interchangeable)
CanStart(r) == pc[r] = "idle" /\ (IF r = 1 THEN TRUE ELSE pc[r - 1] # "idle")

Respond(r, rsp) ==
  /\ pc' = [pc EXCEPT ![r] = "done"]
  /\ resp' = [resp EXCEPT ![r] = rsp]

Err(status, error) ==
  [NoResp EXCEPT !.status = status, !.error = error]

\* const client = await pool.connect()
Connect(l) == [l EXCEPT !.connected = TRUE]

\* await client.query(...)
Query(l) ==
  [l EXCEPT !.queries = @ + 1,
            !.lateQueries = IF l.released > 0 THEN @ + 1 ELSE @]

\* (variant: the handler returns without releasing its client)
ReleaseForgotten(l) == l

\* finally { client.release() }
Release(l) == [l EXCEPT !.released = @ + 1]

\* finally { if (client) client.release() } of the admin router
ReleaseIfClient(l) == IF l.connected THEN Release(l) ELSE l

\* a row as POST /api/generate_key inserts it at time `at`
GeneratedRow(id, unlockKey, dt, at) ==
  [NoRow EXCEPT !.id = id,
                !.unlock_key = unlockKey,
                !.key_expires_at = at + KeyValidity,
                !.premium_duration_seconds = ToSeconds(getDurationInfo(dt)),
                !.duration_type = dt,
                !.used = FALSE,
                !.created_by = "generate_key"]

\* The tables outlive the process (CREATE TABLE IF NOT EXISTS): the server
\* starts on an empty unlock_keys table or on one that holds a key that
\* POST /api/generate_key stored at time 0.  user_tokens starts empty.
Init ==
  /\ \/ keys = << >> /\ nextKeyId = 1
     \/ \E dt \in DurationTypes :
          /\ keys = (1 :> GeneratedRow(1, Key1, dt, 0))
          /\ nextKeyId = 2
  /\ tokens = {}
  /\ nextTok = 1
  /\ now = 0
  /\ ticks = 0
  /\ pc = [r \in Reqs |-> "idle"]
  /\ arg = [r \in Reqs |-> NoArg]
  /\ loc = [r \in Reqs |-> NoLoc]
  /\ resp = [r \in Reqs |-> NoResp]
  /\ sessions = {}

\* values of a client-side clock field a check request may carry
ClientTimes == {0, KeyValidity}

\* the clock advances
TickSteps == {1, KEY_DURATIONS("5min"), KeyValidity, KeyValidity + 1}

Tick ==
  /\ ticks < MaxTicks
  /\ \E d \in TickSteps : now' = now + d
  /\ ticks' = ticks + 1
  /\ UNCHANGED <<keys, nextKeyId, tokens, nextTok, pc, arg, loc, resp,
                 sessions>>

\* ---------------------------------- POST /admin/login, /admin/logout
\* login: 400 without a password, 401 when it is not ADMIN_PASSWORD,
\* otherwise isAdmin is set on the request's session and the session saved
Login(r) ==
  /\ CanStart(r)
  /\ \E session \in SessionIds, password \in Passwords :
       /\ arg' = [arg EXCEPT ![r] = [NoArg EXCEPT !.kind = "admin_login",
                                      !.session = session,
                                      !.password = password]]
       /\ IF password = ""
            THEN /\ Respond(r, Err(400, "password_is_required"))
                 /\ UNCHANGED sessions
            ELSE IF password # ADMIN_PASSWORD
              THEN /\ Respond(r, Err(401, "invalid_password"))
                   /\ UNCHANGED sessions
              ELSE /\ sessions' = sessions \cup {session}
                   /\ Respond(r, [NoResp EXCEPT !.status = 200])
  /\ UNCHANGED <<keys, nextKeyId, tokens, nextTok, now, ticks, loc>>

\* logout: req.session.destroy() removes the request's session from the
\* store
Logout(r) ==
  /\ CanStart(r)
  /\ \E session \in SessionIds :
       /\ arg' = [arg EXCEPT ![r] = [NoArg EXCEPT !.kind = "admin_logout",
                                      !.session = session]]
       /\ sessions' = sessions \ {session}
       /\ Respond(r, [NoResp EXCEPT !.status = 200])
  /\ UNCHANGED <<keys, nextKeyId, tokens, nextTok, now, ticks, loc>>

\* ------------------------------------------------- POST /api/verify_key
\* (variant: a duration named by the last block of the key string wins)
DurationTypeFromKey(keyData) ==
  IF SubSeq(keyData.unlock_key, 14, 17) = <<"1","D","A","Y">>
    THEN "1day"
    ELSE keyData.duration_type

\* durationType = keyData.duration_type
DurationTypeOf(keyData) == keyData.duration_type

\* (variant: a key is refused from its expiry instant on)
IsKeyExpiredAtLimit(t, keyExpiresAt) == t >= keyExpiresAt

\* if (now > keyExpiresAt)
IsKeyExpired(t, keyExpiresAt) == t > keyExpiresAt

\* (variant: the validity window is tested before the used flag)
RowRejectionExpiryFirst(keyData, t) ==
  IF IsKeyExpired(t, keyData.key_expires_at) THEN "key_expired"
  ELSE IF keyData.used THEN "key_already_used"
  ELSE ""

\* (variant: the row found is redeemed whatever its state)
RowRejectionSkipped(keyData, t) == ""

\* the tests on the row found, in the handler's order: if (keyData.used),
\* then if (now > keyExpiresAt); "" when the row passes both
RowRejection(keyData, t) ==
  IF keyData.used THEN "key_already_used"
  ELSE IF IsKeyExpired(t, keyData.key_expires_at) THEN "key_expired"
  ELSE ""

\* what the handler does with the row(s) its SELECT returned
VerifyAfterSelect(r, u, k) ==
  LET rows == RowsByKey(k)
      l == Query(Connect(loc[r])) IN
    IF rows = {}
      THEN \* key not found: it will be created with the default duration
           /\ loc' = [loc EXCEPT ![r] = [l EXCEPT !.durationType = "5min",
                                                  !.keyExpiresAt = now + KeyValidity]]
           /\ pc' = [pc EXCEPT ![r] = "v_insert_key"]
           /\ UNCHANGED resp
      ELSE LET keyData == keys[CHOOSE id \in rows : TRUE] IN
           IF RowRejection(keyData, now) # ""
             THEN /\ Respond(r, Err(400, RowRejection(keyData, now)))
                  /\ loc' = [loc EXCEPT ![r] = Release(l)]
             ELSE /\ loc' = [loc EXCEPT ![r] = [l EXCEPT !.keyData = keyData,
                                        !.keyId = keyData.id,
                                        !.durationType = DurationTypeOf(keyData)]]
                  /\ pc' = [pc EXCEPT ![r] = "v_update"]
                  /\ UNCHANGED resp

\* request received: parameter check and format validation, then
\* pool.connect() and SELECT ... FROM unlock_keys WHERE unlock_key = $1
VerifyKeyOf(r, inputs) ==
  /\ CanStart(r)
  /\ \E in \in inputs :
       LET u == in[1]
           k == in[2] IN
       /\ arg' = [arg EXCEPT ![r] = [NoArg EXCEPT !.kind = "verify_key",
                                      !.user_id = u, !.unlock_key = k]]
       /\ IF u = "" \/ k = <<>>
            THEN /\ Respond(r, Err(400, "missing_parameters"))
                 /\ UNCHANGED loc
            ELSE IF ~validateKeyFormat(k)
              THEN /\ Respond(r, Err(400, "invalid_key_format"))
                   /\ UNCHANGED loc
              ELSE VerifyAfterSelect(r, u, k)
  /\ UNCHANGED <<keys, nextKeyId, tokens, nextTok, now, ticks, sessions>>

VerifyKey(r) == VerifyKeyOf(r, RedeemInputs)

\* INSERT INTO unlock_keys ... RETURNING ... for a key that was not found;
\* unlock_key is UNIQUE, a duplicate makes the query throw
VerifyInsertKey(r) ==
  /\ pc[r] = "v_insert_key"
  /\ IF UniqueViolation(arg[r].unlock_key)
       THEN /\ Respond(r, Err(500, "internal_server_error"))
            /\ loc' = [loc EXCEPT ![r] = Release(Query(loc[r]))]
            /\ UNCHANGED <<keys, nextKeyId>>
       ELSE /\ nextKeyId <= MaxKeys
            /\ LET row == [NoRow EXCEPT
                       !.id = nextKeyId,
                       !.unlock_key = arg[r].unlock_key,
                       !.key_expires_at = loc[r].keyExpiresAt,
                       !.premium_duration_seconds =
                           ToSeconds(getDurationInfo(loc[r].durationType)),
                       !.used = FALSE,
                       !.duration_type = loc[r].durationType,
                       !.created_by = "verify_key"] IN
                /\ keys' = (nextKeyId :> row) @@ keys
                /\ loc' = [loc EXCEPT ![r] = [Query(loc[r]) EXCEPT
                                                  !.keyData = row,
                                                  !.keyId = row.id]]
            /\ nextKeyId' = nextKeyId + 1
            /\ pc' = [pc EXCEPT ![r] = "v_update"]
            /\ UNCHANGED resp
  /\ UNCHANGED <<tokens, nextTok, now, ticks, arg, sessions>>

\* (variant: the UPDATE flips the flag instead of setting it)
MarkUsedFlips(table, id, user, at) ==
  IF id \in DOMAIN table
    THEN [table EXCEPT ![id].used = ~table[id].used, ![id].redeemed_by = user,
                       ![id].redeemed_at = at]
    ELSE table

\* (variant: the UPDATE also ends the key's validity at the redemption)
MarkUsedEndsValidity(table, id, user, at) ==
  IF id \in DOMAIN table
    THEN [table EXCEPT ![id].used = TRUE, ![id].redeemed_by = user,
                       ![id].redeemed_at = at, ![id].key_expires_at = at]
    ELSE table

\* (variant: the UPDATE records the redeemer and leaves the flag alone)
MarkUsedKeepsFlag(table, id, user, at) ==
  IF id \in DOMAIN table
    THEN [table EXCEPT ![id].redeemed_by = user, ![id].redeemed_at = at]
    ELSE table

\* (variant: the UPDATE sets the flag and leaves the redeemer columns alone)
MarkUsedOnlyFlag(table, id, user, at) ==
  IF id \in DOMAIN table
    THEN [table EXCEPT ![id].used = TRUE]
    ELSE table

\* UPDATE unlock_keys SET used = true, redeemed_by = $1, redeemed_at = NOW()
\* WHERE id = $2
MarkUsed(table, id, user, at) ==
  IF id \in DOMAIN table
    THEN [table EXCEPT ![id].used = TRUE, ![id].redeemed_by = user,
                       ![id].redeemed_at = at]
    ELSE table

\* new Date(currentTimestamp + durationMs), durationMs being the duration of
\* the duration type the handler holds
PremiumExpiry(currentTimestamp, durationType) ==
  currentTimestamp + getDurationInfo(durationType)

\* the UPDATE that marks the key used, then generateSecureToken() and the
\* computation of premiumExpiresAt
VerifyUpdate(r) ==
  /\ pc[r] = "v_update"
  /\ keys' = MarkUsed(keys, loc[r].keyId, arg[r].user_id, now)
  /\ \E t \in 1..nextTok :
       /\ loc' = [loc EXCEPT ![r] = [Query(loc[r]) EXCEPT
                    !.token = t,
                    !.currentTimestamp = now,
                    !.premiumExpiresAt =
                        PremiumExpiry(now, loc[r].durationType)]]
       /\ nextTok' = IF t = nextTok THEN nextTok + 1 ELSE nextTok
  /\ pc' = [pc EXCEPT ![r] = "v_insert_token"]
  /\ UNCHANGED <<nextKeyId, tokens, now, ticks, arg, resp, sessions>>

\* the duration type derived from premium_duration_seconds
FixDurationType(actualSeconds) ==
  IF actualSeconds >= 604800 THEN "1week"
  ELSE IF actualSeconds >= 172800 THEN "2weeks"
  ELSE IF actualSeconds >= 86400 THEN "1day"
  ELSE IF actualSeconds >= 2592000 THEN "1month"
  ELSE "5min"

\* (variant: the expiry in the response is computed anew when it is sent)
SuccessResponseRecalculated(r) ==
  [NoResp EXCEPT !.status = 200,
                 !.token = loc[r].token,
                 !.premium_until = PremiumExpiry(now, loc[r].durationType),
                 !.duration_type = loc[r].durationType,
                 !.premium_duration_seconds =
                     loc[r].keyData.premium_duration_seconds]

\* the success response; premium_until and premium_expires_at are both
\* premiumExpiresAt.toISOString(), the string that the INSERT stored
SuccessResponse(r) ==
  [NoResp EXCEPT !.status = 200,
                 !.token = loc[r].token,
                 !.premium_until = loc[r].premiumExpiresAt,
                 !.duration_type = loc[r].durationType,
                 !.premium_duration_seconds =
                     loc[r].keyData.premium_duration_seconds]

\* INSERT INTO user_tokens (token is UNIQUE), the check that the expiry is
\* in the future, and the choice of the duration type to report
VerifyInsertToken(r) ==
  /\ pc[r] = "v_insert_token"
  /\ IF \E t \in tokens : t.token = loc[r].token
       THEN /\ Respond(r, Err(500, "internal_server_error"))
            /\ loc' = [loc EXCEPT ![r] = Release(Query(loc[r]))]
            /\ UNCHANGED tokens
       ELSE /\ tokens' = tokens \cup
                 {[token |-> loc[r].token, user_id |-> arg[r].user_id,
                   expires_at |-> loc[r].premiumExpiresAt,
                   duration_type |-> loc[r].durationType,
                   key_id |-> loc[r].keyId,
                   issued_at |-> loc[r].currentTimestamp]}
            /\ IF loc[r].premiumExpiresAt <= now
                 THEN /\ Respond(r, Err(500, "internal_server_error"))
                      /\ loc' = [loc EXCEPT ![r] = Release(Query(loc[r]))]
                 ELSE LET fixed == FixDurationType(
                            loc[r].keyData.premium_duration_seconds) IN
                      IF fixed # loc[r].durationType
                        THEN /\ loc' = [loc EXCEPT ![r] = [Query(loc[r]) EXCEPT
                                                   !.fixedDurationType = fixed]]
                             /\ pc' = [pc EXCEPT ![r] = "v_fix_type"]
                             /\ UNCHANGED resp
                        ELSE /\ Respond(r, SuccessResponse(r))
                             /\ loc' = [loc EXCEPT ![r] = Release(Query(loc[r]))]
  /\ UNCHANGED <<keys, nextKeyId, nextTok, now, ticks, arg, sessions>>

\* UPDATE unlock_keys SET duration_type = $1 WHERE id = $2, after which the
\* handler assigns to the constant premiumExpiresAt: a TypeError, caught by
\* the outer handler
VerifyFixType(r) ==
  /\ pc[r] = "v_fix_type"
  /\ keys' = IF loc[r].keyId \in DOMAIN keys
               THEN [keys EXCEPT ![loc[r].keyId].duration_type =
                                     loc[r].fixedDurationType]
               ELSE keys
  /\ Respond(r, Err(500, "internal_server_error"))
  /\ loc' = [loc EXCEPT ![r] = Release(Query(loc[r]))]
  /\ UNCHANGED <<nextKeyId, tokens, nextTok, now, ticks, arg, sessions>>

\* --------------------------------------------- POST /api/generate_key
\* requireAdminAuth, validation of duration_type, then the INSERT of a
\* freshly drawn key (unlock_key is UNIQUE)
ApiGenerateKeyOf(r, inputs) ==
  /\ CanStart(r)
  /\ \E in \in inputs, f \in FirstParts, s \in Suffixes :
       LET admin == ApiRequireAdminAuth(in[1])
           dt == in[2] IN
       /\ arg' = [arg EXCEPT ![r] = [NoArg EXCEPT !.kind = "api_generate_key",
                                      !.session = in[1],
                                      !.isAdmin = admin, !.duration_type = dt]]
       /\ loc' = [loc EXCEPT ![r] =
                    IF admin /\ dt \in DurationTypes
                      THEN Release(Query(Connect(loc[r])))
                      ELSE loc[r]]
       /\ IF ~admin
            THEN /\ Respond(r, Err(401, "admin_authentication_required"))
                 /\ UNCHANGED <<keys, nextKeyId>>
            ELSE IF dt \notin DurationTypes
              THEN /\ Respond(r, Err(400, "invalid_duration_type"))
                   /\ UNCHANGED <<keys, nextKeyId>>
              ELSE LET unlockKey == generateUnlockKey(f, s) IN
                IF UniqueViolation(unlockKey)
                  THEN /\ Respond(r, Err(500, "internal_server_error"))
                       /\ UNCHANGED <<keys, nextKeyId>>
                  ELSE /\ nextKeyId <= MaxKeys
                       /\ LET row == GeneratedRow(nextKeyId, unlockKey, dt, now) IN
                           /\ keys' = (nextKeyId :> row) @@ keys
                           /\ Respond(r, [NoResp EXCEPT !.status = 200,
                                 !.unlock_key = row.unlock_key,
                                 !.duration_type = row.duration_type,
                                 !.premium_duration_seconds =
                                     row.premium_duration_seconds,
                                 !.key_expires_at = row.key_expires_at,
                                 !.used = row.used])
                       /\ nextKeyId' = nextKeyId + 1
  /\ UNCHANGED <<tokens, nextTok, now, ticks, sessions>>

ApiGenerateKey(r) == ApiGenerateKeyOf(r, GenerateInputs)

\* ------------------------------------------------------ GET /api/keys
\* requireAdminAuth, then SELECT ... FROM unlock_keys ORDER BY created_at
\* DESC; the response lists the rows (`listed` holds their ids)
ListKeys(r) ==
  /\ CanStart(r)
  /\ \E session \in SessionIds \cup {0} :
       LET admin == ApiRequireAdminAuth(session) IN
       /\ arg' = [arg EXCEPT ![r] = [NoArg EXCEPT !.kind = "api_list_keys",
                                      !.session = session,
                                      !.isAdmin = admin]]
       /\ IF ~admin
            THEN /\ Respond(r, Err(401, "admin_authentication_required"))
                 /\ UNCHANGED loc
            ELSE /\ Respond(r, [NoResp EXCEPT !.status = 200,
                                              !.listed = DOMAIN keys])
                 /\ loc' = [loc EXCEPT ![r] = Release(Query(Connect(loc[r])))]
  /\ UNCHANGED <<keys, nextKeyId, tokens, nextTok, now, ticks, sessions>>

\* ------------------------------------------- POST /admin/generate_key
\* (variant: the admin router knows every duration type of the API router)
AdminDurationTypesAll == DurationTypes

\* the duration types of the admin router's KEY_DURATIONS
AdminDurationTypes == {"5min", "1day", "1month"}

\* generateUnlockKey(durationType) of the admin router:
\* vsm-XXXXXXXX-<durationType>
AdminGenerateUnlockKey(randomPart, durationType) ==
  Prefix \o randomPart \o <<"-">> \o TypeChars(durationType)

maxAttempts == 10

\* (variant: the loop is left one pass later)
LoopAgainInclusive(attempts) == attempts <= maxAttempts

\* while (attempts < maxAttempts)
LoopAgain(attempts) == attempts < maxAttempts

\* the requests <<<<session, Authorization>>, duration_type>> of the admin
\* generate_key
AdminGenerateInputs ==
  ({<<0, Bearer(ADMIN_PASSWORD)>>} \X {"5min", "1month", "1week"})
    \cup {<<<<0, NoAuthorization>>, "5min">>}

\* requireAdminAuth, validation of duration_type, pool.connect()
AdminGenerateKeyOf(r, inputs) ==
  /\ CanStart(r)
  /\ \E in \in inputs :
       LET admin == requireAdminAuth(in[1][1], in[1][2])
           dt == in[2] IN
       /\ arg' = [arg EXCEPT ![r] = [NoArg EXCEPT !.kind = "admin_generate_key",
                                      !.session = in[1][1],
                                      !.authorization = in[1][2],
                                      !.isAdmin = admin, !.duration_type = dt]]
       /\ IF ~admin
            THEN /\ Respond(r, Err(401, "admin_authentication_required"))
                 /\ UNCHANGED loc
            ELSE IF dt \notin AdminDurationTypes
              THEN /\ Respond(r, Err(400, "invalid_duration_type"))
                   /\ loc' = [loc EXCEPT ![r] = ReleaseIfClient(loc[r])]
              ELSE /\ pc' = [pc EXCEPT ![r] = "g_try"]
                   /\ loc' = [loc EXCEPT ![r] = Connect(loc[r])]
                   /\ UNCHANGED resp
  /\ UNCHANGED <<keys, nextKeyId, tokens, nextTok, now, ticks, sessions>>

AdminGenerateKey(r) == AdminGenerateKeyOf(r, AdminGenerateInputs)

\* one pass of the do/while loop: a candidate is drawn, attempts++, SELECT id
\* FROM unlock_keys WHERE unlock_key = $1; the loop ends when no row has the
\* candidate or attempts has reached maxAttempts, and the test after the loop
\* refuses when attempts >= maxAttempts
AdminGenerateTry(r) ==
  /\ pc[r] = "g_try"
  /\ \E f \in FirstParts :
       LET key == AdminGenerateUnlockKey(f, arg[r].duration_type)
           attempts == loc[r].attempts + 1
           exit == RowsByKey(key) = {} \/ ~LoopAgain(attempts)
           l == [Query(loc[r]) EXCEPT !.key = key, !.attempts = attempts] IN
       /\ IF ~exit
            THEN /\ loc' = [loc EXCEPT ![r] = l]
                 /\ UNCHANGED <<pc, resp>>
            ELSE IF attempts >= maxAttempts
              THEN /\ Respond(r, Err(500, "could_not_generate_unique_key"))
                   /\ loc' = [loc EXCEPT ![r] = ReleaseIfClient(l)]
              ELSE /\ pc' = [pc EXCEPT ![r] = "g_insert"]
                   /\ loc' = [loc EXCEPT ![r] = l]
                   /\ UNCHANGED resp
  /\ UNCHANGED <<keys, nextKeyId, tokens, nextTok, now, ticks, arg, sessions>>

\* (variant: the duration is stored in minutes)
AdminGeneratedRowMinutes(id, unlockKey, dt, at) ==
  [NoRow EXCEPT !.id = id,
                !.unlock_key = unlockKey,
                !.key_expires_at = at + KeyValidity,
                !.premium_duration_seconds = ToSeconds(KEY_DURATIONS(dt)) \div 60,
                !.duration_type = dt,
                !.used = FALSE,
                !.created_by = "admin_generate_key"]

\* a row as POST /admin/generate_key inserts it at time `at`
AdminGeneratedRow(id, unlockKey, dt, at) ==
  [NoRow EXCEPT !.id = id,
                !.unlock_key = unlockKey,
                !.key_expires_at = at + KeyValidity,
                !.premium_duration_seconds = ToSeconds(KEY_DURATIONS(dt)),
                !.duration_type = dt,
                !.used = FALSE,
                !.created_by = "admin_generate_key"]

\* INSERT INTO unlock_keys ... RETURNING ... (unlock_key is UNIQUE) and the
\* response
AdminGenerateInsert(r) ==
  /\ pc[r] = "g_insert"
  /\ loc' = [loc EXCEPT ![r] = ReleaseIfClient(Query(loc[r]))]
  /\ IF UniqueViolation(loc[r].key)
       THEN /\ Respond(r, Err(500, "internal_server_error"))
            /\ UNCHANGED <<keys, nextKeyId>>
       ELSE /\ nextKeyId <= MaxKeys
            /\ LET row == AdminGeneratedRow(nextKeyId, loc[r].key,
                                            arg[r].duration_type, now) IN
                /\ keys' = (nextKeyId :> row) @@ keys
                /\ Respond(r, [NoResp EXCEPT !.status = 200,
                      !.unlock_key = row.unlock_key,
                      !.duration_type = row.duration_type,
                      !.premium_duration_seconds = row.premium_duration_seconds,
                      !.key_expires_at = row.key_expires_at,
                      !.used = FALSE])
            /\ nextKeyId' = nextKeyId + 1
  /\ UNCHANGED <<tokens, nextTok, now, ticks, arg, sessions>>

\* ---------------------------------------------- POST /api/check_token
\* (variant: a token is still active at its expiry instant)
IsActiveAtExpiry(remainingTime) == remainingTime >= 0

\* remainingTime > 0
IsActive(remainingTime) == remainingTime > 0

\* (variant: the subtraction of the remaining time is the wrong way round)
CheckResponseSwapped(row, t) ==
  LET remainingTime == t - row.expires_at IN
    IF ~IsActive(remainingTime)
      THEN [NoResp EXCEPT !.status = 200, !.at = t, !.active = FALSE,
                          !.expires_at = row.expires_at]
      ELSE [NoResp EXCEPT !.status = 200, !.at = t, !.active = TRUE,
                          !.expires_at = row.expires_at,
                          !.remaining_time = remainingTime]

\* the response to a check of a stored token row at server time t (`at` is
\* not sent: it records the server time the handler read)
CheckResponse(row, t) ==
  LET remainingTime == row.expires_at - t IN
    IF ~IsActive(remainingTime)
      THEN [NoResp EXCEPT !.status = 200, !.at = t, !.active = FALSE,
                          !.expires_at = row.expires_at]
      ELSE [NoResp EXCEPT !.status = 200, !.at = t, !.active = TRUE,
                          !.expires_at = row.expires_at,
                          !.remaining_time = remainingTime]

\* (variant: a clock value sent by the client is trusted)
CheckNowFromClient(client_time) == IF client_time # 0 THEN client_time ELSE now

\* const now = new Date(): the time a check is answered for; the request
\* body (here its client-side clock field) is not consulted
CheckNow(client_time) == now

\* (variant: a check deletes the row of a token it finds expired)
TokensPurgedOnCheck(tok) ==
  { t \in tokens : t.token # tok \/ IsActive(t.expires_at - now) }

\* user_tokens after a check of the token string tok: the handler's only
\* query is a SELECT
TokensAfterCheck(tok) == tokens

\* (variant: the query of the earlier router in src/routes/api.js, which
\* adds AND expires_at > NOW())
SelectTokenUnexpired(tok) ==
  { t \in tokens : t.token = tok /\ t.expires_at > now }

\* SELECT user_id, expires_at FROM user_tokens WHERE token = $1
SelectToken(tok) == { t \in tokens : t.token = tok }

\* the whole handler: it awaits a single query (SELECT user_id, expires_at
\* FROM user_tokens WHERE token = $1) and answers from the row and the
\* server clock; nothing else of the request body is read
CheckToken(r) ==
  /\ CanStart(r)
  /\ \E tok \in 0..nextTok, ct \in ClientTimes :
       /\ arg' = [arg EXCEPT ![r] = [NoArg EXCEPT !.kind = "check_token",
                                      !.token = tok, !.client_time = ct]]
       /\ IF tok = 0
            THEN Respond(r, Err(400, "token_required"))
            ELSE LET rows == SelectToken(tok) IN
              IF rows = {}
                THEN Respond(r, Err(401, "invalid_token"))
                ELSE Respond(r, [CheckResponse(CHOOSE t \in rows : TRUE,
                                               CheckNow(ct))
                                   EXCEPT !.at = now])
       /\ tokens' = TokensAfterCheck(tok)
       /\ loc' = [loc EXCEPT ![r] =
                    IF tok = 0 THEN loc[r]
                    ELSE Release(Query(Connect(loc[r])))]
  /\ UNCHANGED <<keys, nextKeyId, nextTok, now, ticks, sessions>>

\* --------------------------------------------- DELETE /admin/keys/:id
\* (variant: the tokens issued from the key are deleted with it)
TokensCascade(id) == { t \in tokens : t.key_id # id }

\* user_tokens after DELETE FROM unlock_keys WHERE id = $1: the statement
\* names one table and user_tokens has no reference to unlock_keys
TokensAfterDelete(id) == tokens

AdminDeleteKeyOf(r, inputs) ==
  /\ CanStart(r)
  /\ \E in \in inputs :
       LET admin == requireAdminAuth(in[1][1], in[1][2])
           id == in[2] IN
       /\ arg' = [arg EXCEPT ![r] = [NoArg EXCEPT !.kind = "admin_delete_key",
                                      !.session = in[1][1],
                                      !.authorization = in[1][2],
                                      !.isAdmin = admin, !.id = id]]
       /\ loc' = [loc EXCEPT ![r] =
                    IF admin THEN ReleaseIfClient(Query(Connect(loc[r])))
                    ELSE loc[r]]
       /\ IF ~admin
            THEN /\ Respond(r, Err(401, "admin_authentication_required"))
                 /\ UNCHANGED <<keys, tokens>>
            ELSE IF id \notin DOMAIN keys
              THEN /\ Respond(r, Err(404, "key_not_found"))
                   /\ UNCHANGED keys
                   /\ tokens' = TokensAfterDelete(id)
              ELSE /\ keys' = [i \in DOMAIN keys \ {id} |-> keys[i]]
                   /\ tokens' = TokensAfterDelete(id)
                   /\ Respond(r, [NoResp EXCEPT !.status = 200])
  /\ UNCHANGED <<nextKeyId, nextTok, now, ticks, sessions>>

AdminDeleteKey(r) == AdminDeleteKeyOf(r, AdminKeyInputs)

\* ----------------------------------------- PUT /admin/keys/:id/toggle
\* requireAdminAuth, then SELECT used FROM unlock_keys WHERE id = $1
AdminToggleSelectOf(r, inputs) ==
  /\ CanStart(r)
  /\ \E in \in inputs :
       LET admin == requireAdminAuth(in[1][1], in[1][2])
           id == in[2] IN
       /\ arg' = [arg EXCEPT ![r] = [NoArg EXCEPT !.kind = "admin_toggle_key",
                                      !.session = in[1][1],
                                      !.authorization = in[1][2],
                                      !.isAdmin = admin, !.id = id]]
       /\ IF ~admin
            THEN /\ Respond(r, Err(401, "admin_authentication_required"))
                 /\ UNCHANGED loc
            ELSE IF id \notin DOMAIN keys
              THEN /\ Respond(r, Err(404, "key_not_found"))
                   /\ loc' = [loc EXCEPT ![r] =
                                ReleaseIfClient(Query(Connect(loc[r])))]
              ELSE /\ loc' = [loc EXCEPT ![r] =
                                [Query(Connect(loc[r])) EXCEPT
                                   !.currentUsed = keys[id].used]]
                   /\ pc' = [pc EXCEPT ![r] = "t_update"]
                   /\ UNCHANGED resp
  /\ UNCHANGED <<keys, nextKeyId, tokens, nextTok, now, ticks, sessions>>

AdminToggleSelect(r) == AdminToggleSelectOf(r, AdminKeyInputs)

\* UPDATE unlock_keys SET used = $1 WHERE id = $2 RETURNING id, used; the
\* response reads updateResult.rows[0], which is undefined (and left out of
\* the JSON) when the row is gone
AdminToggleUpdate(r) ==
  /\ pc[r] = "t_update"
  /\ LET id == arg[r].id
         newUsed == ~loc[r].currentUsed IN
       /\ keys' = IF id \in DOMAIN keys
                    THEN [keys EXCEPT ![id].used = newUsed]
                    ELSE keys
       /\ Respond(r, [NoResp EXCEPT !.status = 200, !.used = newUsed])
  /\ loc' = [loc EXCEPT ![r] = ReleaseIfClient(Query(loc[r]))]
  /\ UNCHANGED <<nextKeyId, tokens, nextTok, now, ticks, arg, sessions>>

\* no handler is suspended at an await
Quiet == \A q \in Reqs : pc[q] \in {"idle", "done"}

\* Redeem requests and the admin operations on keys, in every interleaving
\* of their handlers, within one clock unit
Next ==
  \E r \in Reqs :
    \/ VerifyKey(r)
    \/ VerifyInsertKey(r)
    \/ VerifyUpdate(r)
    \/ VerifyInsertToken(r)
    \/ VerifyFixType(r)
    \/ AdminDeleteKey(r)
    \/ AdminToggleSelect(r)
    \/ AdminToggleUpdate(r)

Spec == Init /\ [][Next]_vars

\* Redeem and check requests that arrive one after the other while the
\* clock advances
NextClock ==
  \/ Tick
  \/ \E r \in Reqs :
       \/ (Quiet /\ VerifyKey(r))
       \/ VerifyInsertKey(r)
       \/ VerifyUpdate(r)
       \/ VerifyInsertToken(r)
       \/ VerifyFixType(r)
       \/ (Quiet /\ CheckToken(r))

SpecClock == Init /\ [][NextClock]_vars

\* Redeem requests and the admin operations on keys that arrive one after
\* the other while the clock advances
NextSerial ==
  \/ Tick
  \/ \E r \in Reqs :
       \/ (Quiet /\ VerifyKey(r))
       \/ VerifyInsertKey(r)
       \/ VerifyUpdate(r)
       \/ VerifyInsertToken(r)
       \/ VerifyFixType(r)
       \/ (Quiet /\ AdminDeleteKey(r))
       \/ (Quiet /\ AdminToggleSelect(r))
       \/ AdminToggleUpdate(r)

SpecSerial == Init /\ [][NextSerial]_vars

\* Two keys that POST /api/generate_key stored at time 0 with the same
\* duration type
InitTwoCodes ==
  /\ \E dt \in DurationTypes :
       keys = (1 :> GeneratedRow(1, Key1, dt, 0))
                @@ (2 :> GeneratedRow(2, KeyNamingDay, dt, 0))
  /\ nextKeyId = 3
  /\ tokens = {}
  /\ nextTok = 1
  /\ now = 0
  /\ ticks = 0
  /\ pc = [r \in Reqs |-> "idle"]
  /\ arg = [r \in Reqs |-> NoArg]
  /\ loc = [r \in Reqs |-> NoLoc]
  /\ resp = [r \in Reqs |-> NoResp]
  /\ sessions = {}

\* Redeem requests for the two keys that arrive one after the other
NextTwoCodes ==
  \E r \in Reqs :
    \/ (Quiet /\ VerifyKeyOf(r, TwoCodeInputs))
    \/ VerifyUpdate(r)
    \/ VerifyInsertToken(r)
    \/ VerifyFixType(r)

SpecTwoCodes == InitTwoCodes /\ [][NextTwoCodes]_vars

\* Logins and generate requests of the API router while the clock advances
NextGenerate ==
  \/ Tick
  \/ \E r \in Reqs :
       \/ Login(r)
       \/ ApiGenerateKey(r)

SpecGenerate == Init /\ [][NextGenerate]_vars

\* Generate requests of the admin router that arrive one after the other
NextAdminGenerate ==
  \E r \in Reqs :
    \/ (Quiet /\ AdminGenerateKey(r))
    \/ AdminGenerateTry(r)
    \/ AdminGenerateInsert(r)

SpecAdminGenerate == Init /\ [][NextAdminGenerate]_vars

\* Generate requests of the admin router that arrive one after the other
\* while the clock advances, each making at most MaxPasses passes of the loop
NextAdminClock ==
  \/ Tick
  \/ \E r \in Reqs :
       \/ (Quiet /\ AdminGenerateKey(r))
       \/ (loc[r].attempts < MaxPasses /\ AdminGenerateTry(r))
       \/ AdminGenerateInsert(r)

SpecAdminClock == Init /\ [][NextAdminClock]_vars

\* Generate requests of both routers in every interleaving of their
\* handlers, each making at most MaxPasses passes of the loop
NextRace ==
  \E r \in Reqs :
    \/ AdminGenerateKey(r)
    \/ (loc[r].attempts < MaxPasses /\ AdminGenerateTry(r))
    \/ AdminGenerateInsert(r)
    \/ ApiGenerateKey(r)
    \/ Login(r)

SpecRace == Init /\ [][NextRace]_vars

\* the credentials <<session, Authorization>> a client may present
AuthCredentials ==
  ((SessionIds \cup {0}) \X {NoAuthorization})
    \cup ({0} \X (Authorizations \ {NoAuthorization}))

\* The routes behind requireAdminAuth with every credential, their
\* requests arriving one after the other, and logins and logouts at any
\* moment
NextAuth ==
  \E r \in Reqs :
    \/ Login(r)
    \/ Logout(r)
    \/ (Quiet /\ AdminDeleteKeyOf(r, AuthCredentials \X {1}))
    \/ (Quiet /\ AdminToggleSelectOf(r, AuthCredentials \X {1}))
    \/ AdminToggleUpdate(r)
    \/ (Quiet /\ AdminGenerateKeyOf(r, AuthCredentials \X {"5min"}))
    \/ (loc[r].attempts < MaxPasses /\ AdminGenerateTry(r))
    \/ AdminGenerateInsert(r)
    \/ (Quiet /\ ApiGenerateKeyOf(r, (SessionIds \cup {0}) \X {"5min"}))

SpecAuth == Init /\ [][NextAuth]_vars

\* Every handler that takes a client from the pool, the requests arriving
\* one after the other within one clock unit
NextPool ==
  \E r \in Reqs :
    \/ (Quiet /\ Login(r))
    \/ (Quiet /\ VerifyKeyOf(r, {<<"u1", Key1>>, <<"u1", LegacyKey>>}))
    \/ VerifyInsertKey(r)
    \/ VerifyUpdate(r)
    \/ VerifyInsertToken(r)
    \/ VerifyFixType(r)
    \/ (Quiet /\ CheckToken(r))
    \/ (Quiet /\ ApiGenerateKeyOf(r, {<<1, "5min">>, <<1, "bogus">>}))
    \/ (Quiet /\ ListKeys(r))
    \/ (Quiet /\ AdminGenerateKeyOf(r,
           {<<0, Bearer(ADMIN_PASSWORD)>>} \X {"5min", "1week"}))
    \/ (loc[r].attempts < MaxPasses /\ AdminGenerateTry(r))
    \/ AdminGenerateInsert(r)
    \/ (Quiet /\ AdminDeleteKeyOf(r, {<<<<0, Bearer(ADMIN_PASSWORD)>>, 1>>}))
    \/ (Quiet /\ AdminToggleSelectOf(r,
           {<<<<0, Bearer(ADMIN_PASSWORD)>>, 1>>}))
    \/ AdminToggleUpdate(r)

SpecPool == Init /\ [][NextPool]_vars

\* Redeem, admin delete and check requests that arrive one after the other
\* while the clock advances
NextDeleteCheck ==
  \/ Tick
  \/ \E r \in Reqs :
       \/ (Quiet /\ VerifyKeyOf(r, Users \X {Key1}))
       \/ VerifyInsertKey(r)
       \/ VerifyUpdate(r)
       \/ VerifyInsertToken(r)
       \/ VerifyFixType(r)
       \/ (Quiet /\ AdminDeleteKeyOf(r, {<<0, Bearer(ADMIN_PASSWORD)>>}
                                           \X (1..MaxKeys)))
       \/ (Quiet /\ CheckToken(r))

SpecDeleteCheck == Init /\ [][NextDeleteCheck]_vars

\* Redeem requests that arrive one after the other, for key strings of
\* every shape
NextFormat ==
  \E r \in Reqs :
    \/ (Quiet /\ VerifyKeyOf(r, FormatInputs))
    \/ VerifyInsertKey(r)
    \/ VerifyUpdate(r)
    \/ VerifyInsertToken(r)
    \/ VerifyFixType(r)

SpecFormat == Init /\ [][NextFormat]_vars

\* ================================================================ claims
IsRedeem(r) == arg[r].kind = "verify_key"
IsCheck(r) == arg[r].kind = "check_token"
Done(r) == pc[r] = "done"
Succeeded(r) == Done(r) /\ resp[r].status = 200

\* the key row with this id exists and is unused
RowUnused(table, id) == id \in DOMAIN table /\ ~table[id].used

\* C1: when two redeem requests with distinct owners name the same generated
\* code, no admin request is made and no token string collides, a success of
\* one of them means the other returned the already-redeemed error.
C1_OneRedeemWins ==
  (\A q \in Reqs : arg[q].kind \in {"none", "verify_key"}) =>
    \A r1, r2 \in Reqs :
      ( /\ r1 # r2
        /\ IsRedeem(r1) /\ IsRedeem(r2)
        /\ Done(r1) /\ Done(r2)
        /\ arg[r1].unlock_key = arg[r2].unlock_key
        /\ arg[r1].user_id # arg[r2].user_id
        /\ loc[r1].token # loc[r2].token
        /\ \E id \in RowsByKey(arg[r1].unlock_key) :
             keys[id].created_by = "generate_key"
        /\ resp[r1].status = 200 )
      => resp[r2].error = "key_already_used"

\* C2: a redeem whose UPDATE finds no row, or finds the row already used,
\* ends there with the already-redeemed error (and so stores no token).
C2_WriteDecides ==
  [][ \A r \in Reqs :
        ( /\ pc[r] = "v_update"
          /\ pc'[r] # "v_update"
          /\ ~RowUnused(keys, loc[r].keyId) )
        => ( pc'[r] = "done" /\ resp'[r].error = "key_already_used" ) ]_vars

\* C3: no two stored tokens originate from the same unlock code.
C3_OneTokenPerCode ==
  \A t1, t2 \in tokens : t1.key_id = t2.key_id => t1 = t2

C5_MarkedUsedThenSuccess ==
  \A r \in Reqs :
    ( /\ IsRedeem(r) /\ Done(r)
      /\ loc[r].keyData.created_by = "generate_key"
      /\ loc[r].keyData.duration_type \in DurationTypes
      /\ loc[r].token = 1 /\ nextTok = 2 )
    => resp[r].status = 200

\* C6: a stored token expires premium_duration_seconds (of the record of the
\* code it comes from) after the server time read at its redemption.
C6_ExpiryFromStoredSeconds ==
  \A t \in tokens :
    t.key_id \in DOMAIN keys =>
      t.expires_at =
        t.issued_at + Ms(keys[t.key_id].premium_duration_seconds)

\* a completed check of a stored token
Checked(r) == IsCheck(r) /\ Done(r) /\ resp[r].status = 200

\* C7: a check of a stored token with expiry T, answered at server time t,
\* reports that T, and reports active exactly when t < T, then with
\* remaining time T - t.
C7_ActiveIffBeforeExpiry ==
  \A r \in Reqs :
    Checked(r) =>
      /\ \E tk \in tokens :
           tk.token = arg[r].token /\ tk.expires_at = resp[r].expires_at
      /\ resp[r].active <=> (resp[r].at < resp[r].expires_at)
      /\ resp[r].active =>
           resp[r].remaining_time = resp[r].expires_at - resp[r].at

\* a token was checked before its expiry and found active, and checked
\* exactly at its expiry instant and found inactive
C7_Witness ==
  \E r1, r2 \in Reqs :
    /\ Checked(r1) /\ Checked(r2)
    /\ arg[r1].token = arg[r2].token
    /\ resp[r1].active /\ resp[r1].at < resp[r1].expires_at
    /\ ~resp[r2].active /\ resp[r2].at = resp[r2].expires_at

\* C8 (as stated): of two successive checks of a token, an inactive one is
\* never followed by an active one, and while both are active the remaining
\* time of the later one is strictly smaller.
C8_StrictlyDecreasing ==
  \A r1, r2 \in Reqs :
    (r1 < r2 /\ Checked(r1) /\ Checked(r2) /\ arg[r1].token = arg[r2].token)
    => /\ ~resp[r1].active => ~resp[r2].active
       /\ (resp[r1].active /\ resp[r2].active)
            => resp[r2].remaining_time < resp[r1].remaining_time

\* C8 (amended): of two successive checks of a token, an inactive one is
\* never followed by an active one; while both are active the remaining time
\* of the later one is not larger, and it is strictly smaller when the
\* server clock advanced between the two.
C8_MonotoneExpiry ==
  \A r1, r2 \in Reqs :
    (r1 < r2 /\ Checked(r1) /\ Checked(r2) /\ arg[r1].token = arg[r2].token)
    => /\ resp[r1].at <= resp[r2].at
       /\ ~resp[r1].active => ~resp[r2].active
       /\ (resp[r1].active /\ resp[r2].active)
            => /\ resp[r2].remaining_time <= resp[r1].remaining_time
               /\ resp[r1].at < resp[r2].at
                    => resp[r2].remaining_time < resp[r1].remaining_time

\* two successive checks of a token found it active, the clock having
\* advanced between them
C8_Witness ==
  \E r1, r2 \in Reqs :
    /\ r1 < r2 /\ Checked(r1) /\ Checked(r2)
    /\ arg[r1].token = arg[r2].token
    /\ resp[r1].active /\ resp[r2].active
    /\ resp[r1].at < resp[r2].at

\* C9: two checks of the same token answered at the same server time give
\* the same response, whatever client-side clock value each request carries.
C9_OnlyServerClock ==
  \A r1, r2 \in Reqs :
    ( /\ Checked(r1) /\ Checked(r2)
      /\ arg[r1].token = arg[r2].token
      /\ resp[r1].at = resp[r2].at )
    => resp[r1] = resp[r2]

\* two checks of the same token were answered at the same server time for
\* requests that carry different client-side clock values
C9_Witness ==
  \E r1, r2 \in Reqs :
    /\ Checked(r1) /\ Checked(r2)
    /\ arg[r1].token = arg[r2].token
    /\ resp[r1].at = resp[r2].at
    /\ arg[r1].client_time # arg[r2].client_time

\* C10 (as stated): no step sets the used flag of an existing code back to
\* false.
C10_UsedNeverReset ==
  [][ \A id \in DOMAIN keys \cap DOMAIN keys' :
        keys[id].used => keys'[id].used ]_vars

\* C10 (amended): the only step that sets the used flag of an existing code
\* back to false is the UPDATE of an admin toggle request.
C10_OnlyToggleResets ==
  [][ \A id \in DOMAIN keys \cap DOMAIN keys' :
        (keys[id].used /\ ~keys'[id].used)
        => \E r \in Reqs :
             /\ arg[r].kind = "admin_toggle_key" /\ arg[r].id = id
             /\ pc[r] = "t_update" /\ pc'[r] = "done" ]_vars

\* a code that was redeemed is unused again
C10_Witness ==
  \E id \in DOMAIN keys : ~keys[id].used /\ keys[id].redeemed_by # ""

\* the step is the UPDATE of an admin toggle request on the key `id`
IsToggleUpdate(r, id) ==
  /\ arg[r].kind = "admin_toggle_key" /\ arg[r].id = id
  /\ pc[r] = "t_update" /\ pc'[r] = "done"

\* the step is the UPDATE of a redeem request that holds the key `id`
IsRedeemUpdate(r, id) ==
  /\ IsRedeem(r) /\ loc[r].keyId = id
  /\ pc[r] = "v_update" /\ pc'[r] = "v_insert_token"

\* C11 (as stated): every code that is used has a redeemer and a redemption
\* time.
C11_UsedHasRedeemer ==
  \A id \in DOMAIN keys :
    keys[id].used => (keys[id].redeemed_by # "" /\ keys[id].redeemed_at # -1)

\* C11 (amended): a code is created unused; its used flag is set to true
\* only by the UPDATE of a redeem, which sets redeemed_by and redeemed_at in
\* the same step, or by the UPDATE of an admin toggle, which leaves both as
\* they were; redeemed_by and redeemed_at change in no other step.
C11_UsedSetWithRedeemer ==
  [][ /\ \A id \in DOMAIN keys' \ DOMAIN keys : ~keys'[id].used
      /\ \A id \in DOMAIN keys \cap DOMAIN keys' :
           /\ (~keys[id].used /\ keys'[id].used)
                => \/ \E r \in Reqs :
                        /\ IsToggleUpdate(r, id)
                        /\ keys'[id].redeemed_by = keys[id].redeemed_by
                        /\ keys'[id].redeemed_at = keys[id].redeemed_at
                   \/ \E r \in Reqs :
                        /\ IsRedeemUpdate(r, id)
                        /\ keys'[id].redeemed_by = arg[r].user_id
                        /\ keys'[id].redeemed_by # ""
                        /\ keys'[id].redeemed_at = now
           /\ ( \/ keys'[id].redeemed_by # keys[id].redeemed_by
                \/ keys'[id].redeemed_at # keys[id].redeemed_at )
                => /\ keys'[id].used
                   /\ \E r \in Reqs : IsRedeem(r) /\ pc[r] = "v_update"
                                        /\ loc[r].keyId = id ]_vars

\* a redeem has just marked its code used and recorded its owner and the
\* time on it
C11_Witness ==
  \E r \in Reqs :
    /\ IsRedeem(r) /\ pc[r] = "v_insert_token"
    /\ loc[r].keyId \in DOMAIN keys
    /\ keys[loc[r].keyId].used
    /\ keys[loc[r].keyId].redeemed_by = arg[r].user_id
    /\ keys[loc[r].keyId].redeemed_at = now

\* request q is an admin toggle or delete of the key `id`
IsAdminWrite(q, id) ==
  /\ arg[q].kind \in {"admin_toggle_key", "admin_delete_key"}
  /\ arg[q].isAdmin /\ arg[q].id = id

StartsRedeemOfUnused(r, id) ==
  /\ pc[r] = "idle" /\ arg'[r].kind = "verify_key"
  /\ arg'[r].user_id # "" /\ validateKeyFormat(arg'[r].unlock_key)
  /\ id \in RowsByKey(arg'[r].unlock_key)
  /\ ~keys[id].used

\* C13: a redeem of an existing unused code is refused as expired exactly
\* when the server time is greater than the code's key_expires_at; the
\* refusal ends the request and writes neither table.
C13_ExpiredIffPastValidity ==
  [][ \A r \in Reqs : \A id \in DOMAIN keys :
        StartsRedeemOfUnused(r, id)
        => /\ (pc'[r] = "done" /\ resp'[r].error = "key_expired")
                <=> (now > keys[id].key_expires_at)
           /\ (now > keys[id].key_expires_at)
                => (keys' = keys /\ tokens' = tokens)
           /\ (now <= keys[id].key_expires_at) => pc'[r] = "v_update" ]_vars

\* a redeem of an unused code was refused as expired; the code is still
\* unused and no token is stored
C13_Witness ==
  \E r \in Reqs :
    /\ IsRedeem(r) /\ Done(r) /\ resp[r].error = "key_expired"
    /\ tokens = {}
    /\ \E id \in RowsByKey(arg[r].unlock_key) :
         ~keys[id].used /\ now > keys[id].key_expires_at

\* C14: a redeem request that carries a user id and a key string that is
\* not of the form vsm-XXXXXXXX-XXXX is answered with the invalid-format
\* error in the step that receives it, having acquired no pool client and
\* made no query; it never does so later and the tables are untouched.
C14_MalformedBeforeRepository ==
  \A r \in Reqs :
    ( /\ IsRedeem(r) /\ arg[r].user_id # ""
      /\ arg[r].unlock_key # <<>>
      /\ ~NewFormatRegex(arg[r].unlock_key) )
    => /\ Done(r) /\ resp[r].status = 400
       /\ resp[r].error = "invalid_key_format"
       /\ ~loc[r].connected /\ loc[r].queries = 0
       /\ RowsByKey(arg[r].unlock_key) = {}

\* a redeem with a malformed key was refused without a query, while another
\* redeem has gone to the database
C14_Witness ==
  \E r, q \in Reqs :
    /\ IsRedeem(r) /\ Done(r) /\ arg[r].user_id # ""
    /\ ~NewFormatRegex(arg[r].unlock_key)
    /\ resp[r].error = "invalid_key_format" /\ loc[r].queries = 0
    /\ IsRedeem(q) /\ loc[q].connected /\ loc[q].queries > 0

\* redeem q ended without success for a reason other than a failed INSERT
\* of its token: it was refused, its key INSERT failed, or it failed after
\* its token was stored
EndedOtherwise(q) ==
  /\ IsRedeem(q) /\ Done(q) /\ resp[q].status # 200
  /\ (loc[q].token = 0 \/ loc[q].fixedDurationType # "")

\* C15: when the INSERT of a redeem's token fails after its code was marked
\* used, the error it reports differs from the error of every redeem that
\* ended without success for another reason.
C15_IssuanceFailureDistinct ==
  [][ \A r \in Reqs :
        ( /\ pc[r] = "v_insert_token"
          /\ \E t \in tokens : t.token = loc[r].token
          /\ pc'[r] = "done" )
        => \A q \in Reqs \ {r} :
             EndedOtherwise(q) => resp'[r].error # resp[q].error ]_vars

\* C16: the step that serves a check request, whatever it answers, leaves
\* unlock_keys and user_tokens as they were.
C16_CheckReadOnly ==
  [][ \A r \in Reqs :
        (pc[r] = "idle" /\ arg'[r].kind = "check_token")
        => (keys' = keys /\ tokens' = tokens) ]_vars

\* a check found a token expired and the token's row is still stored
C16_Witness ==
  \E r \in Reqs :
    /\ Checked(r) /\ ~resp[r].active
    /\ \E t \in tokens : t.token = arg[r].token /\ t.expires_at <= now

\* C17: when only redeem requests are made, the user_id of every stored
\* token is the redeemed_by of the key row the token was issued for.
C17_OwnerIsRedeemer ==
  (\A q \in Reqs : arg[q].kind \in {"none", "verify_key"}) =>
    \A t \in tokens :
      t.key_id \in DOMAIN keys => keys[t.key_id].redeemed_by = t.user_id

\* C18: the key string of every row that a generate operation stored passes
\* the format validation of redeem.
C18_GeneratedKeysValidate ==
  \A id \in DOMAIN keys :
    keys[id].created_by \in {"generate_key", "admin_generate_key"}
    => validateKeyFormat(keys[id].unlock_key)

\* redeem r has computed the expiry of the token it grants
Granted(r) == IsRedeem(r) /\ loc[r].token # 0

\* the lifetime of the token redeem r grants
Lifetime(r) == loc[r].premiumExpiresAt - loc[r].currentTimestamp

C20_ExhaustedOnlyIfAllCollided ==
  [][ \A r \in Reqs :
        ( /\ pc[r] = "g_try" /\ pc'[r] = "done"
          /\ resp'[r].error = "could_not_generate_unique_key" )
        => RowsByKey(loc'[r].key) # {} ]_vars

IsGenerate(r) == arg[r].kind \in {"api_generate_key", "admin_generate_key"}

\* C21: in every interleaving of generate requests the rows of unlock_keys
\* have pairwise distinct key strings, and no two generate requests report
\* success for the same key string.
C21_DistinctCodes ==
  /\ \A id1, id2 \in DOMAIN keys :
       keys[id1].unlock_key = keys[id2].unlock_key => id1 = id2
  /\ \A r1, r2 \in Reqs :
       ( /\ r1 # r2 /\ IsGenerate(r1) /\ IsGenerate(r2)
         /\ Succeeded(r1) /\ Succeeded(r2) )
       => resp[r1].unlock_key # resp[r2].unlock_key

\* two admin generate requests found the same candidate free; one stored it
\* and reported success, the INSERT of the other failed
C21_Witness ==
  \E r1, r2 \in Reqs :
    /\ r1 # r2
    /\ arg[r1].kind = "admin_generate_key" /\ arg[r2].kind = "admin_generate_key"
    /\ Succeeded(r1) /\ Done(r2)
    /\ loc[r2].key = resp[r1].unlock_key
    /\ loc[r2].attempts = 1 /\ loc[r1].attempts = 1
    /\ resp[r2].status = 500 /\ resp[r2].error = "internal_server_error"

\* the length in seconds that the claim gives for a duration type
FixedSeconds(dt) ==
  CASE dt = "5min" -> 300
    [] dt = "1day" -> 86400
    [] dt = "1week" -> 604800
    [] dt = "2weeks" -> 1209600
    [] dt = "1month" -> 2592000

C24_LoopBounded ==
  [][ \A r \in Reqs :
        pc[r] = "g_try"
        => /\ loc[r].attempts < 10
           /\ loc'[r] # loc[r]
                => /\ loc'[r].attempts = loc[r].attempts + 1
                   /\ loc'[r].attempts = 10 => pc'[r] # "g_try" ]_vars

\* a generate request made ten lookups, each of a candidate that is in the
\* table, and was refused
C24_Witness ==
  \E r \in Reqs :
    /\ arg[r].kind = "admin_generate_key" /\ Done(r)
    /\ loc[r].attempts = 10
    /\ RowsByKey(loc[r].key) # {}
    /\ resp[r].error = "could_not_generate_unique_key"

\* C25: no step changes the key string, the key_expires_at or the
\* premium_duration_seconds of a row of unlock_keys.
C25_CreationFieldsFrozen ==
  [][ \A id \in DOMAIN keys \cap DOMAIN keys' :
        /\ keys'[id].unlock_key = keys[id].unlock_key
        /\ keys'[id].key_expires_at = keys[id].key_expires_at
        /\ keys'[id].premium_duration_seconds
             = keys[id].premium_duration_seconds ]_vars

\* a key generated for two weeks was redeemed and its duration_type was
\* rewritten, and it still has the seconds of two weeks
C25_Witness ==
  \E id \in DOMAIN keys :
    /\ keys[id].created_by = "generate_key"
    /\ keys[id].used /\ keys[id].redeemed_by # ""
    /\ keys[id].duration_type = "1week"
    /\ keys[id].premium_duration_seconds = 1209600
\* the routes behind requireAdminAuth
AdminKinds ==
  {"api_generate_key", "admin_generate_key", "admin_delete_key",
   "admin_toggle_key"}

\* the request arrives in this step
Arrives(r) == pc[r] = "idle" /\ pc'[r] # "idle"

\* what the claim accepts: the session the request carries has isAdmin in
\* the store, or the request carries "Bearer " and the admin password
CarriesAdminCredentials(a) ==
  a.session \in sessions \/ a.authorization = Bearer(ADMIN_PASSWORD)

\* C26: a request to generate, admin delete or admin toggle that carries
\* neither an admin session nor the admin password as Bearer token is
\* answered 401 on arrival and no table and no session changes; only a
\* request that carried one of the two goes on to the repository; a session
\* is an admin session only from a login with the admin password on, and no
\* longer after a logout.
C26_AdminOnly ==
  [][ /\ \A r \in Reqs :
          /\ ( Arrives(r) /\ arg'[r].kind \in AdminKinds
                /\ ~CarriesAdminCredentials(arg'[r]) )
             => /\ pc'[r] = "done" /\ resp'[r].status = 401
                /\ ~arg'[r].isAdmin
                /\ keys' = keys /\ tokens' = tokens /\ sessions' = sessions
          /\ ( arg'[r].kind \in AdminKinds /\ ~arg'[r].isAdmin )
             => pc'[r] = "done"
          /\ ( arg[r].kind \in AdminKinds /\ ~arg[r].isAdmin
                /\ pc[r] = "done" )
             => resp[r].status = 401
          /\ ( Arrives(r) /\ arg'[r].kind = "admin_logout" )
             => arg'[r].session \notin sessions'
      /\ \A s \in sessions' \ sessions :
          \E r \in Reqs :
            /\ Arrives(r) /\ arg'[r].kind = "admin_login"
            /\ arg'[r].session = s /\ arg'[r].password = ADMIN_PASSWORD
            /\ resp'[r].status = 200 ]_vars

\* session 1 logged in and then deleted key 1; a request with a Bearer
\* token that is not the admin password was answered 401
C26_Witness ==
  \E r1, r2, r3 \in Reqs :
    /\ arg[r1].kind = "admin_login" /\ arg[r1].session = 1 /\ Succeeded(r1)
    /\ arg[r2].kind = "admin_delete_key" /\ arg[r2].session = 1
    /\ arg[r2].authorization = NoAuthorization /\ Succeeded(r2)
    /\ 1 \notin DOMAIN keys
    /\ arg[r3].kind \in AdminKinds /\ arg[r3].authorization = Bearer("guess")
    /\ Done(r3) /\ resp[r3].status = 401

\* C27: a row that generate stored has, before and after it is redeemed, the
\* duration type whose configured length is its premium_duration_seconds.
C27_TypeKeptAfterRedeem ==
  \A id \in DOMAIN keys :
    keys[id].created_by = "generate_key"
      => /\ keys[id].duration_type \in DurationTypes
         /\ FixedSeconds(keys[id].duration_type)
              = keys[id].premium_duration_seconds

\* C28: a redeem request with both parameters is answered by the first of
\* these that applies: a malformed key is refused as such whatever the table
\* holds; a key without a row gets neither the used nor the expired answer;
\* a key whose row is used gets key_already_used, also when the row is past
\* key_expires_at; key_expired is for an unused row past key_expires_at.
C28_UsedBeforeExpired ==
  [][ \A r \in Reqs :
        ( /\ Arrives(r) /\ arg'[r].kind = "verify_key"
          /\ arg'[r].user_id # "" /\ arg'[r].unlock_key # <<>> )
        => LET k == arg'[r].unlock_key
               rows == RowsByKey(k) IN
           IF ~validateKeyFormat(k)
             THEN resp'[r].error = "invalid_key_format"
           ELSE IF rows = {}
             THEN pc'[r] # "done"
           ELSE IF \E id \in rows : keys[id].used
             THEN pc'[r] = "done" /\ resp'[r].error = "key_already_used"
           ELSE IF \E id \in rows : now > keys[id].key_expires_at
             THEN pc'[r] = "done" /\ resp'[r].error = "key_expired"
           ELSE pc'[r] = "v_update" ]_vars

\* a redeem of a key whose row is used and past key_expires_at was answered
\* key_already_used
C28_Witness ==
  \E r \in Reqs : \E id \in DOMAIN keys :
    /\ IsRedeem(r) /\ Done(r)
    /\ keys[id].unlock_key = arg[r].unlock_key
    /\ keys[id].used /\ keys[id].redeemed_at < now
    /\ now > keys[id].key_expires_at
    /\ resp[r].status = 400 /\ resp[r].error = "key_already_used"

\* the answers of a refused redeem that the claim names
Rejections == {"invalid_key_format", "key_already_used", "key_expired"}

\* the redeem request arriving in this step is for a malformed key, for a
\* key whose row is used, or for a key whose row is past key_expires_at
MustBeRejected(r) ==
  /\ Arrives(r) /\ arg'[r].kind = "verify_key"
  /\ arg'[r].user_id # "" /\ arg'[r].unlock_key # <<>>
  /\ IF ~validateKeyFormat(arg'[r].unlock_key)
       THEN TRUE
       ELSE \E id \in RowsByKey(arg'[r].unlock_key) :
              IF keys[id].used THEN TRUE ELSE now > keys[id].key_expires_at

\* C29: a redeem request is refused as malformed, already used or expired
\* in the step in which it arrives, before it has written anything, and
\* that step leaves every row of unlock_keys and of user_tokens as it was;
\* a request for a malformed key, a used key or an expired key is refused
\* in this way.
C29_RejectionWritesNothing ==
  [][ \A r \in Reqs :
        /\ ( /\ pc[r] # "done" /\ pc'[r] = "done"
              /\ arg'[r].kind = "verify_key"
              /\ resp'[r].error \in Rejections )
           => /\ pc[r] = "idle"
              /\ keys' = keys /\ tokens' = tokens
              /\ nextKeyId' = nextKeyId
        /\ MustBeRejected(r)
           => /\ pc'[r] = "done" /\ resp'[r].status = 400
              /\ resp'[r].error \in Rejections
              /\ keys' = keys /\ tokens' = tokens ]_vars

\* after a redeem by one user, the redeem of the same key by another user
\* was refused as already used: the row still names the first user and the
\* second user has no token
C29_Witness ==
  \E r1, r2 \in Reqs : \E id \in DOMAIN keys :
    /\ IsRedeem(r1) /\ Succeeded(r1)
    /\ IsRedeem(r2) /\ Done(r2) /\ resp[r2].error = "key_already_used"
    /\ arg[r2].unlock_key = arg[r1].unlock_key
    /\ arg[r2].user_id # arg[r1].user_id
    /\ keys[id].unlock_key = arg[r2].unlock_key
    /\ keys[id].used /\ keys[id].redeemed_by = arg[r1].user_id
    /\ \A t \in tokens : t.user_id # arg[r2].user_id

C32_ReleasedOnce ==
  \A r \in Reqs :
    /\ loc[r].lateQueries = 0
    /\ loc[r].queries > 0 => loc[r].connected
    /\ IF Done(r) /\ loc[r].connected
         THEN loc[r].released = 1
         ELSE loc[r].released = 0

\* a redeem ended in a thrown error after its fourth query, a second redeem
\* of the same key was refused after its SELECT, and an admin toggle
\* completed: each of the three has released its client once
C32_Witness ==
  \E r1, r2, r3 \in Reqs :
    /\ IsRedeem(r1) /\ Done(r1) /\ resp[r1].status = 500
    /\ loc[r1].fixedDurationType # "" /\ loc[r1].queries = 4
    /\ loc[r1].released = 1
    /\ IsRedeem(r2) /\ Done(r2) /\ resp[r2].error = "key_already_used"
    /\ loc[r2].queries = 1 /\ loc[r2].released = 1
    /\ arg[r3].kind = "admin_toggle_key" /\ Succeeded(r3)
    /\ loc[r3].queries = 2 /\ loc[r3].released = 1

\* the key string cut at every "-"
RECURSIVE SplitDash(_)
SplitDash(s) ==
  IF \E i \in 1..Len(s) : s[i] = "-"
    THEN LET i == CHOOSE i \in 1..Len(s) :
                    s[i] = "-" /\ \A j \in 1..(i - 1) : s[j] # "-" IN
         <<SubSeq(s, 1, i - 1)>> \o SplitDash(SubSeq(s, i + 1, Len(s)))
    ELSE <<s>>

\* the shape the claim describes: three segments, the prefix vsm, a block
\* of eight and a block of four characters of A-Z and 0-9
ClaimedShape(key) ==
  LET p == SplitDash(key) IN
    /\ Len(p) = 3
    /\ p[1] = <<"v","s","m">>
    /\ Len(p[2]) = 8 /\ AllIn(p[2], AlnumUpper)
    /\ Len(p[3]) = 4 /\ AllIn(p[3], AlnumUpper)

IsDelete(r) == arg[r].kind = "admin_delete_key" /\ arg[r].isAdmin

\* the token row was issued from a key whose row is gone
Orphaned(t) == t.key_id \notin DOMAIN keys

\* C34: an admin delete leaves every other key row and every token row as
\* it was, and a check of a token whose key row is gone reports active
\* exactly while the server clock is before the token's expiry.
C34_DeleteKeepsTokens ==
  [][ \A r \in Reqs :
        /\ (Arrives(r) /\ IsDelete(r)')
            => /\ tokens' = tokens
               /\ DOMAIN keys' = DOMAIN keys \ {arg'[r].id}
               /\ \A i \in DOMAIN keys' : keys'[i] = keys[i]
        /\ (Arrives(r) /\ IsCheck(r)')
            => \A t \in tokens :
                 (t.token = arg'[r].token /\ Orphaned(t))
                 => /\ tokens' = tokens
                    /\ resp'[r].status = 200
                    /\ resp'[r].expires_at = t.expires_at
                    /\ resp'[r].active <=> now < t.expires_at ]_vars

\* a key was redeemed and then deleted, time passed, and a check of the
\* token issued from it reported active
C34_Witness ==
  \E r1, r2, r3 \in Reqs :
    /\ IsRedeem(r1) /\ Succeeded(r1)
    /\ IsDelete(r2) /\ Succeeded(r2)
    /\ Checked(r3) /\ resp[r3].active /\ resp[r3].at > 0
    /\ \E t \in tokens : t.token = arg[r3].token /\ Orphaned(t)

\* request r is an admin toggle of the key `id` that was answered 200
Toggled(r, id) ==
  /\ arg[r].kind = "admin_toggle_key" /\ arg[r].id = id
  /\ Done(r) /\ resp[r].status = 200

\* C35: when the only requests made are two admin toggles of the same code
\* and both have completed, the code's used flag has the value it had before
\* them (the value the first arrival read), and each response carries the
\* value its UPDATE wrote.
C35_TwoTogglesRestore ==
  \A id \in DOMAIN keys : \A r1, r2 \in Reqs :
    ( /\ r1 < r2 /\ Toggled(r1, id) /\ Toggled(r2, id)
      /\ \A q \in Reqs \ {r1, r2} : pc[q] = "idle" )
    => /\ keys[id].used = loc[r1].currentUsed
       /\ resp[r1].used = ~loc[r1].currentUsed
       /\ resp[r2].used = ~loc[r2].currentUsed

====
